---- MODULE Spec2Model ----
(***************************************************************************)
(* pkgcore: the metadata cache template (pkgcore/cache/__init__.py, class  *)
(* base, with its eclass codec) and the slot conflict tracker              *)
(* (pkgcore/graph/pigeonholes.py, class PigeonHoledSlots).                 *)
(*                                                                         *)
(* Three specifications share the module:                                  *)
(*   SpecCache   - base.__getitem__/__setitem__/__delitem__/sync/commit    *)
(*                 over a backend that stores what _setitem is given;      *)
(*   SpecTracker - fill_slotting / add_limiter / remove_slotting;          *)
(*   SpecCodec   - deconstruct_eclasses / reconstruct_eclasses.            *)
(*                                                                         *)
(* A python str is a sequence of one-character strings; "\t" is the        *)
(* separator of the eclass text format.                                    *)
(***************************************************************************)
EXTENDS Integers, Sequences, FiniteSets, TLC

\* ------------------------------------------------------------------------
\* Bounds of the model
\* ------------------------------------------------------------------------

\* largest number of entries of an eclass map handed to the encoder
MaxEntries == 2

\* largest number of tokens of a raw on-disk eclass string
MaxTokens == 6

\* largest rate handed to sync()
MaxRate == 2

\* cap of the pending-write counter (it grows without bound while deletes
\* or commits fail)
MaxUpdates == 4

\* longest run of consecutive set calls that is counted
MaxRun == 7

\* cap of the length of one bucket of the tracker
MaxBucket == 3

\* ------------------------------------------------------------------------
\* State
\* ------------------------------------------------------------------------

VARIABLES
    readonly,            \* self.readonly
    autocommits,         \* class attribute autocommits
    cleanse_keys,        \* class attribute cleanse_keys
    serialize_eclasses,  \* class attribute serialize_eclasses
    commit_overridden,   \* the derived class supplies the flush behind commit()
    sync_rate,           \* self.sync_rate
    updates,             \* self.updates, the pending-write counter
    backend,             \* what the derived class stores: cpv -> dict
    c_call,              \* the last call on the cache: operation, outcome, the
                         \* backend primitives it invoked, the state it started from
    run,                 \* the run of consecutive set calls in progress
    slot_dict,           \* PigeonHoledSlots.slot_dict: key -> list of entries
    t_call,              \* the last call on the tracker: operation, argument,
                         \* outcome, returned list, the slot_dict it started from
    ec_dict,             \* the dict handed to deconstruct_eclasses
    ec_string,           \* the string handed to reconstruct_eclasses and where
                         \* it comes from
    ec_decoded           \* what reconstruct_eclasses made of it

flagVars == <<readonly, autocommits, cleanse_keys, serialize_eclasses,
              commit_overridden>>

cacheVars == <<readonly, autocommits, cleanse_keys, serialize_eclasses,
               commit_overridden, sync_rate, updates, backend, c_call, run>>

trackerVars == <<slot_dict, t_call>>

codecVars == <<ec_dict, ec_string, ec_decoded>>

vars == <<cacheVars, trackerVars, codecVars>>

\* ------------------------------------------------------------------------
\* Python strings
\* ------------------------------------------------------------------------

TAB == "\t"

SPACE == " "

\* characters str.strip() removes (those of the model's alphabet)
Whitespace == {SPACE, TAB}

Digits == <<"0", "1", "2", "3", "4", "5", "6", "7", "8", "9">>

DigitChars == {Digits[i] : i \in 1..10}

DigitValue(c) == (CHOOSE i \in 1..10 : Digits[i] = c) - 1

\* "%s" % n for a non-negative integer n
RECURSIVE ToDec(_)
ToDec(n) == IF n < 10 THEN <<Digits[n + 1]>>
            ELSE ToDec(n \div 10) \o <<Digits[(n % 10) + 1]>>

\* "%s" % n for any integer n
IntStr(n) == IF n < 0 THEN <<"-">> \o ToDec(0 - n) ELSE ToDec(n)

RECURSIVE LStrip(_)
LStrip(s) == IF s # <<>> /\ Head(s) \in Whitespace THEN LStrip(Tail(s)) ELSE s

RECURSIVE RStrip(_)
RStrip(s) == IF s # <<>> /\ s[Len(s)] \in Whitespace
             THEN RStrip(SubSeq(s, 1, Len(s) - 1)) ELSE s

\* str.strip()
Strip(s) == RStrip(LStrip(s))

\* str.split(sep): "" splits to [""]
RECURSIVE Split(_, _)
Split(s, sep) ==
    IF \E i \in 1..Len(s) : s[i] = sep
    THEN LET i == CHOOSE j \in 1..Len(s) :
                      s[j] = sep /\ \A k \in 1..(j - 1) : s[k] # sep
         IN  <<SubSeq(s, 1, i - 1)>> \o Split(SubSeq(s, i + 1, Len(s)), sep)
    ELSE <<s>>

\* sep.join(parts)
RECURSIVE Join(_, _)
Join(parts, sep) ==
    IF parts = <<>> THEN <<>>
    ELSE IF Len(parts) = 1 THEN parts[1]
    ELSE parts[1] \o <<sep>> \o Join(Tail(parts), sep)

\* str.isdigit(): non-empty and digits only
IsDigit(s) == s # <<>> /\ \A i \in 1..Len(s) : s[i] \in DigitChars

RECURSIVE DecValue(_)
DecValue(s) == IF s = <<>> THEN 0
               ELSE 10 * DecValue(SubSeq(s, 1, Len(s) - 1)) + DigitValue(s[Len(s)])

\* long(s) succeeds: surrounding whitespace and one sign are accepted
LongOk(s) ==
    LET t == Strip(s)
    IN  \/ IsDigit(t)
        \/ t # <<>> /\ Head(t) \in {"-", "+"} /\ IsDigit(Tail(t))

\* long(s), for LongOk(s)
Long(s) ==
    LET t == Strip(s)
    IN  IF Head(t) = "-" THEN 0 - DecValue(Tail(t))
        ELSE IF Head(t) = "+" THEN DecValue(Tail(t))
        ELSE DecValue(t)

\* ------------------------------------------------------------------------
\* The eclass codec (base.deconstruct_eclasses, base.reconstruct_eclasses)
\* ------------------------------------------------------------------------

\* An eclass dict is a function from class names (str) to <<path, mtime>>.
EmptyDict == <<>>

\* the orders dict.iteritems() may yield the entries in
Orders(d) ==
    {o \in [1..Cardinality(DOMAIN d) -> DOMAIN d] :
        \A i, j \in DOMAIN o : i # j => o[i] # o[j]}

\* "%s\t%s\t%s" % (k, v[0], v[1])
EntryStr(k, v) == k \o <<TAB>> \o v[1] \o <<TAB>> \o IntStr(v[2])

\* deconstruct_eclasses(eclass_dict), the entries iterated in order o
deconstruct_eclasses(eclass_dict, o) ==
    Join([i \in 1..Len(o) |-> EntryStr(o[i], eclass_dict[o[i]])], TAB)

\* d[k] = v
DictSet(d, k, v) == (k :> v) @@ d

\* the loop over triples from token x (1-based), d built so far
RECURSIVE ReadTriples(_, _, _, _)
ReadTriples(cpv, eclasses, x, d) ==
    IF x > Len(eclasses) THEN [kind |-> "ok", d |-> d]
    ELSE IF x + 2 > Len(eclasses) THEN [kind |-> "IndexError", cpv |-> cpv]
    ELSE IF ~LongOk(eclasses[x + 2])
         THEN [kind |-> "CacheCorruption", cpv |-> cpv]
    ELSE ReadTriples(cpv, eclasses, x + 3,
             DictSet(d, eclasses[x], <<eclasses[x + 1], Long(eclasses[x + 2])>>))

\* the loop over pairs from token x (1-based), d built so far
RECURSIVE ReadPairs(_, _, _, _)
ReadPairs(cpv, eclasses, x, d) ==
    IF x > Len(eclasses) THEN [kind |-> "ok", d |-> d]
    ELSE IF x + 1 > Len(eclasses) THEN [kind |-> "IndexError", cpv |-> cpv]
    ELSE IF ~LongOk(eclasses[x + 1])
         THEN [kind |-> "CacheCorruption", cpv |-> cpv]
    ELSE ReadPairs(cpv, eclasses, x + 2,
             DictSet(d, eclasses[x], <<<<>>, Long(eclasses[x + 1])>>))

\* reconstruct_eclasses testing "l % 2" before "l % 3"
reconstruct_eclasses_pairs_first(cpv, eclass_string) ==
    LET eclasses == Split(Strip(eclass_string), TAB)
        l == Len(eclasses)
    IN  IF eclasses = << <<>> >> THEN [kind |-> "ok", d |-> EmptyDict]
        ELSE IF l % 2 = 0
             THEN IF ~IsDigit(eclasses[2])
                  THEN ReadTriples(cpv, eclasses, 1, EmptyDict)
                  ELSE ReadPairs(cpv, eclasses, 1, EmptyDict)
        ELSE IF l % 3 = 0 THEN ReadTriples(cpv, eclasses, 1, EmptyDict)
        ELSE [kind |-> "CacheCorruption", cpv |-> cpv]

\* reconstruct_eclasses with "paths = eclasses[1].isdigit()", the "not" lost
reconstruct_eclasses_paths_inverted(cpv, eclass_string) ==
    LET eclasses == Split(Strip(eclass_string), TAB)
        l == Len(eclasses)
    IN  IF eclasses = << <<>> >> THEN [kind |-> "ok", d |-> EmptyDict]
        ELSE IF l % 3 = 0 THEN ReadTriples(cpv, eclasses, 1, EmptyDict)
        ELSE IF l % 2 = 0
             THEN IF IsDigit(eclasses[2])
                  THEN ReadTriples(cpv, eclasses, 1, EmptyDict)
                  ELSE ReadPairs(cpv, eclasses, 1, EmptyDict)
        ELSE [kind |-> "CacheCorruption", cpv |-> cpv]

\* reconstruct_eclasses without the check of the length: what is no multiple
\* of 3 is read as pairs
reconstruct_eclasses_no_len_check(cpv, eclass_string) ==
    LET eclasses == Split(Strip(eclass_string), TAB)
        l == Len(eclasses)
    IN  IF eclasses = << <<>> >> THEN [kind |-> "ok", d |-> EmptyDict]
        ELSE IF l % 3 = 0 THEN ReadTriples(cpv, eclasses, 1, EmptyDict)
        ELSE IF l % 2 = 0 /\ ~IsDigit(eclasses[2])
             THEN ReadTriples(cpv, eclasses, 1, EmptyDict)
        ELSE ReadPairs(cpv, eclasses, 1, EmptyDict)

\* reconstruct_eclasses(cpv, eclass_string) for a str eclass_string
reconstruct_eclasses(cpv, eclass_string) ==
    LET eclasses == Split(Strip(eclass_string), TAB)
        l == Len(eclasses)
    IN  IF eclasses = << <<>> >> THEN [kind |-> "ok", d |-> EmptyDict]
        ELSE IF l % 3 = 0 THEN ReadTriples(cpv, eclasses, 1, EmptyDict)
        ELSE IF l % 2 = 0
             THEN IF ~IsDigit(eclasses[2])
                  THEN ReadTriples(cpv, eclasses, 1, EmptyDict)
                  ELSE ReadPairs(cpv, eclasses, 1, EmptyDict)
        ELSE [kind |-> "CacheCorruption", cpv |-> cpv]

\* ------------------------------------------------------------------------
\* The slot conflict tracker (PigeonHoledSlots)
\* ------------------------------------------------------------------------

\* Packages (concrete occupants): identity id, obj.key, obj.slot and the
\* value __eq__ compares.  A and A2 are distinct objects that compare equal;
\* C compares equal to A but sits in another slot.
Pkg(id, key, slot, val) ==
    [id |-> id, isRestriction |-> FALSE, key |-> key, slot |-> slot, val |-> val]

Pkgs ==
    { Pkg("A", "K1", 1, "v1"), Pkg("A2", "K1", 1, "v1"), Pkg("B", "K1", 1, "v2"),
      Pkg("C", "K1", 2, "v1"), Pkg("D", "K2", 1, "v1") }

\* Atoms (restriction.base derivatives, blockers): identity id, atom.key and
\* the packages atom.match accepts.  R2 tells A2 from the equal A.
Atom(id, key, matched) ==
    [id |-> id, isRestriction |-> TRUE, key |-> key, matched |-> matched]

Atoms ==
    { Atom("R1", "K1", {"A", "A2", "C"}), Atom("R2", "K1", {"A2", "B"}),
      Atom("R3", "K2", {"D"}) }

Entries == Pkgs \cup Atoms

\* isinstance(x, restriction.base)
IsRestriction(x) == x.isRestriction

\* atom.match(obj)
Match(atom, obj) == obj.id \in atom.matched

\* x == obj on packages
ValueEq(x, obj) == x.key = obj.key /\ x.val = obj.val

\* d.setdefault(key, []) as it leaves d
SetDefault(d, key) ==
    IF key \in DOMAIN d THEN d ELSE (key :> <<>>) @@ d

\* d[key] = v
SetKey(d, key, v) == (key :> v) @@ d

\* del d[key]
DelKey(d, key) == [k \in (DOMAIN d) \ {key} |-> d[k]]

\* the sanity check of fill_slotting: some restriction of the bucket matches x
SanityFails(bucket, x) ==
    \E j \in 1..Len(bucket) : IsRestriction(bucket[j]) /\ Match(bucket[j], x)

\* the scan that does not report an unequal package of the same slot
RECURSIVE FillScanNoSlot(_, _, _, _)
FillScanNoSlot(bucket, obj, i, l) ==
    IF i > Len(bucket) THEN [how |-> "end", l |-> l]
    ELSE LET x == bucket[i]
         IN  IF IsRestriction(x)
             THEN IF Match(x, obj)
                  THEN FillScanNoSlot(bucket, obj, i + 1, Append(l, x))
                  ELSE FillScanNoSlot(bucket, obj, i + 1, l)
             ELSE IF x.slot = obj.slot /\ ValueEq(x, obj)
                  THEN IF SanityFails(bucket, x)
                       THEN [how |-> "raise", l |-> <<>>]
                       ELSE [how |-> "return", l |-> <<>>]
                  ELSE FillScanNoSlot(bucket, obj, i + 1, l)

\* the scan that reports an equal package as a conflict and scans on
RECURSIVE FillScanNoReturn(_, _, _, _)
FillScanNoReturn(bucket, obj, i, l) ==
    IF i > Len(bucket) THEN [how |-> "end", l |-> l]
    ELSE LET x == bucket[i]
         IN  IF IsRestriction(x)
             THEN IF Match(x, obj)
                  THEN FillScanNoReturn(bucket, obj, i + 1, Append(l, x))
                  ELSE FillScanNoReturn(bucket, obj, i + 1, l)
             ELSE IF x.slot = obj.slot
                  THEN FillScanNoReturn(bucket, obj, i + 1, Append(l, x))
                  ELSE FillScanNoReturn(bucket, obj, i + 1, l)

\* the scan that reports a package whatever its slot
RECURSIVE FillScanAnySlot(_, _, _, _)
FillScanAnySlot(bucket, obj, i, l) ==
    IF i > Len(bucket) THEN [how |-> "end", l |-> l]
    ELSE LET x == bucket[i]
         IN  IF IsRestriction(x)
             THEN IF Match(x, obj)
                  THEN FillScanAnySlot(bucket, obj, i + 1, Append(l, x))
                  ELSE FillScanAnySlot(bucket, obj, i + 1, l)
             ELSE IF x.slot = obj.slot /\ ValueEq(x, obj)
                  THEN IF SanityFails(bucket, x)
                       THEN [how |-> "raise", l |-> <<>>]
                       ELSE [how |-> "return", l |-> <<>>]
                  ELSE FillScanAnySlot(bucket, obj, i + 1, Append(l, x))

\* the scan of fill_slotting from position i with the conflicts l found so far:
\* "raise" on the failed sanity check, "return" on the early return [],
\* "end" when the loop ran to its end
RECURSIVE FillScan(_, _, _, _)
FillScan(bucket, obj, i, l) ==
    IF i > Len(bucket) THEN [how |-> "end", l |-> l]
    ELSE LET x == bucket[i]
         IN  IF IsRestriction(x)
             THEN IF Match(x, obj)
                  THEN FillScan(bucket, obj, i + 1, Append(l, x))
                  ELSE FillScan(bucket, obj, i + 1, l)
             ELSE IF x.slot = obj.slot
                  THEN IF ValueEq(x, obj)
                       THEN IF SanityFails(bucket, x)
                            THEN [how |-> "raise", l |-> <<>>]
                            ELSE [how |-> "return", l |-> <<>>]
                       ELSE FillScan(bucket, obj, i + 1, Append(l, x))
                  ELSE FillScan(bucket, obj, i + 1, l)

\* fill_slotting appending whatever the scan found
FillDictAlways(d, obj) ==
    LET d1 == SetDefault(d, obj.key)
    IN  SetKey(d1, obj.key, Append(d1[obj.key], obj))

\* slot_dict after fill_slotting(obj) on d
FillDict(d, obj) ==
    LET d1 == SetDefault(d, obj.key)
        r  == FillScan(d1[obj.key], obj, 1, <<>>)
    IN  IF r.how = "end" /\ r.l = <<>>
        THEN SetKey(d1, obj.key, Append(d1[obj.key], obj))
        ELSE d1

\* the outcome of fill_slotting(obj) on d
FillResult(d, obj) ==
    LET r == FillScan(SetDefault(d, obj.key)[obj.key], obj, 1, <<>>)
    IN  IF r.how = "raise" THEN [kind |-> "Exception", ret |-> <<>>]
        ELSE [kind |-> "ok", ret |-> r.l]

\* the list add_limiter(atom) returns on d
LimiterConflicts(d, atom) ==
    SelectSeq(SetDefault(d, atom.key)[atom.key],
              LAMBDA x : ~IsRestriction(x) /\ Match(atom, x))

\* add_limiter appending only when nothing conflicts
LimiterDictIfClear(d, atom) ==
    LET d1 == SetDefault(d, atom.key)
    IN  IF \E j \in 1..Len(d1[atom.key]) :
              ~IsRestriction(d1[atom.key][j]) /\ Match(atom, d1[atom.key][j])
        THEN d
        ELSE SetKey(d1, atom.key, Append(d1[atom.key], atom))

\* slot_dict after add_limiter(atom) on d, atom a restriction
LimiterDict(d, atom) ==
    LET d1 == SetDefault(d, atom.key)
    IN  SetKey(d1, atom.key, Append(d1[atom.key], atom))

\* remove_slotting comparing with "!=" for "is not"
RemoveKeptByValue(d, obj) ==
    SelectSeq(d[obj.key],
              LAMBDA x : ~(\/ x.id = obj.id
                           \/ /\ ~IsRestriction(x)
                              /\ ~IsRestriction(obj)
                              /\ ValueEq(x, obj)))

\* l of remove_slotting: the entries of the bucket that are not obj
RemoveKept(d, obj) == SelectSeq(d[obj.key], LAMBDA x : x.id # obj.id)

\* remove_slotting storing l also when it is empty
RemoveDictKeepKey(d, obj) == SetKey(d, obj.key, RemoveKept(d, obj))

\* slot_dict after a remove_slotting(obj) that does not raise
RemoveDict(d, obj) ==
    LET l == RemoveKept(d, obj)
    IN  IF l # <<>> THEN SetKey(d, obj.key, l) ELSE DelKey(d, obj.key)

BucketLen(d, key) == IF key \in DOMAIN d THEN Len(d[key]) ELSE 0

TCall(op, arg, kind, ret) ==
    [op |-> op, arg |-> arg, kind |-> kind, ret |-> ret, pre |-> slot_dict]

\* PigeonHoledSlots()
TrackerInit ==
    /\ slot_dict = <<>>
    /\ t_call = [op |-> "init", arg |-> "none", kind |-> "ok", ret |-> <<>>,
                 pre |-> <<>>]

\* fill_slotting(obj)
fill_slotting(obj) ==
    /\ BucketLen(slot_dict, obj.key) < MaxBucket
    /\ slot_dict' = FillDict(slot_dict, obj)
    /\ LET r == FillResult(slot_dict, obj)
       IN  t_call' = TCall("fill_slotting", obj, r.kind, r.ret)
    /\ UNCHANGED <<cacheVars, codecVars>>

\* add_limiter(atom)
add_limiter(atom) ==
    /\ IF ~IsRestriction(atom)
       THEN /\ slot_dict' = slot_dict
            /\ t_call' = TCall("add_limiter", atom, "TypeError", <<>>)
       ELSE /\ BucketLen(slot_dict, atom.key) < MaxBucket
            /\ slot_dict' = LimiterDict(slot_dict, atom)
            /\ t_call' = TCall("add_limiter", atom, "ok",
                               LimiterConflicts(slot_dict, atom))
    /\ UNCHANGED <<cacheVars, codecVars>>

\* remove_slotting(obj)
remove_slotting(obj) ==
    /\ IF obj.key \notin DOMAIN slot_dict
       THEN /\ slot_dict' = slot_dict
            /\ t_call' = TCall("remove_slotting", obj, "KeyError", <<>>)
       ELSE IF Len(RemoveKept(slot_dict, obj)) = Len(slot_dict[obj.key])
       THEN /\ slot_dict' = slot_dict
            /\ t_call' = TCall("remove_slotting", obj, "KeyError", <<>>)
       ELSE /\ slot_dict' = RemoveDict(slot_dict, obj)
            /\ t_call' = TCall("remove_slotting", obj, "ok", <<>>)
    /\ UNCHANGED <<cacheVars, codecVars>>

TrackerNext ==
    \/ \E obj \in Pkgs : fill_slotting(obj)
    \/ \E atom \in Entries : add_limiter(atom)
    \/ \E obj \in Entries : remove_slotting(obj)

\* ------------------------------------------------------------------------
\* The metadata cache template (class base) over a storing backend
\* ------------------------------------------------------------------------

Cpvs == {"cat/a-1", "cat/b-2"}

\* Values of a metadata dict carry their python type.
StrVal(s) == [t |-> "str", v |-> s]

DictVal(d) == [t |-> "dict", v |-> d]

OneEclass == (<<"e">> :> << <<"p">>, 12 >>)

\* the dicts handed to __setitem__
ValuesSet ==
    { ("DESCRIPTION" :> StrVal(<<"d">>)),
      ("DESCRIPTION" :> StrVal(<<>>)) @@ ("_eclasses_" :> DictVal(OneEclass)),
      ("DESCRIPTION" :> StrVal(<<"d">>)) @@ ("_eclasses_" :> DictVal(EmptyDict)),
      ("_eclasses_" :> DictVal(OneEclass)) }

\* "not d[k]" is false
Truthy(val) == val.v # <<>>

\* the ProtectedDict after "for k in d.iterkeys(): if not d[k]: del d[k]"
Cleansed(values) ==
    [k \in {j \in DOMAIN values : Truthy(values[j])} |-> values[k]]

\* d["_eclasses_"] = self.deconstruct_eclasses(d["_eclasses_"]); reading a key
\* the ProtectedDict has deleted raises KeyError
Serialized(d, o) ==
    IF "_eclasses_" \notin DOMAIN d THEN [kind |-> "KeyError", d |-> d]
    ELSE [kind |-> "ok",
          d |-> SetKey(d, "_eclasses_",
                       StrVal(deconstruct_eclasses(d["_eclasses_"].v, o)))]

\* the dict __setitem__ hands to _setitem, built from values
Transformed(values, o) ==
    IF cleanse_keys
    THEN IF serialize_eclasses /\ "_eclasses_" \in DOMAIN values
         THEN Serialized(Cleansed(values), o)
         ELSE [kind |-> "ok", d |-> Cleansed(values)]
    ELSE IF serialize_eclasses /\ "_eclasses_" \in DOMAIN values
         THEN Serialized(values, o)
         ELSE [kind |-> "ok", d |-> values]

\* the orders the eclass dict of values may be iterated in
ValueOrders(values) ==
    IF "_eclasses_" \in DOMAIN values /\ values["_eclasses_"].t = "dict"
    THEN Orders(values["_eclasses_"].v) ELSE {<<>>}

\* the backend's _getitem(cpv)
RawGet(b, cpv) ==
    IF cpv \in DOMAIN b THEN [kind |-> "ok", d |-> b[cpv]]
    ELSE [kind |-> "KeyError", d |-> <<>>]

\* the backend's _setitem(cpv, d)
RawSet(b, cpv, d) == SetKey(b, cpv, d)

\* the backend's _delitem(cpv)
RawDelete(b, cpv) ==
    IF cpv \in DOMAIN b THEN [kind |-> "ok", b |-> DelKey(b, cpv)]
    ELSE [kind |-> "KeyError", b |-> b]

\* commit() that does not look at autocommits
CommitUnchecked ==
    IF commit_overridden THEN [kind |-> "ok", raw |-> <<"commit", "rawCommit">>]
    ELSE [kind |-> "NotImplementedError", raw |-> <<"commit">>]

\* commit(): nothing when the backend autocommits, else the derived class's
\* flush, else NotImplementedError; raw lists the call and the flush
Commit ==
    IF autocommits THEN [kind |-> "ok", raw |-> <<"commit">>]
    ELSE IF commit_overridden THEN [kind |-> "ok", raw |-> <<"commit", "rawCommit">>]
    ELSE [kind |-> "NotImplementedError", raw |-> <<"commit">>]

\* the flush with ">=" for ">"
FlushAtRate(u) ==
    IF u >= sync_rate
    THEN IF Commit.kind = "ok"
         THEN [kind |-> "ok", raw |-> Commit.raw, updates |-> 0]
         ELSE [kind |-> Commit.kind, raw |-> Commit.raw, updates |-> u]
    ELSE [kind |-> "ok", raw |-> <<>>, updates |-> u]

\* "if self.updates > self.sync_rate: self.commit(); self.updates = 0" with
\* the counter at u
Flush(u) ==
    IF u > sync_rate
    THEN IF Commit.kind = "ok"
         THEN [kind |-> "ok", raw |-> Commit.raw, updates |-> 0]
         ELSE [kind |-> Commit.kind, raw |-> Commit.raw, updates |-> u]
    ELSE [kind |-> "ok", raw |-> <<>>, updates |-> u]

Outcome(kind, raw, u, b, ret) ==
    [kind |-> kind, raw |-> raw, updates |-> u, backend |-> b, ret |-> ret]

NoRet == "none"

\* __setitem__ without its readonly check
SetItemUnchecked(cpv, values, o) ==
    LET t == Transformed(values, o)
    IN  IF t.kind # "ok" THEN Outcome(t.kind, <<>>, updates, backend, NoRet)
        ELSE LET b == RawSet(backend, cpv, t.d)
             IN  IF autocommits
                 THEN Outcome("ok", <<"_setitem">>, updates, b, NoRet)
                 ELSE LET f == Flush(updates + 1)
                      IN  Outcome(f.kind, <<"_setitem">> \o f.raw,
                                  f.updates, b, NoRet)

\* __setitem__(cpv, values), the eclass dict iterated in order o
SetItem(cpv, values, o) ==
    IF readonly THEN Outcome("ReadOnly", <<>>, updates, backend, NoRet)
    ELSE LET t == Transformed(values, o)
         IN  IF t.kind # "ok" THEN Outcome(t.kind, <<>>, updates, backend, NoRet)
             ELSE LET b == RawSet(backend, cpv, t.d)
                  IN  IF autocommits
                      THEN Outcome("ok", <<"_setitem">>, updates, b, NoRet)
                      ELSE LET f == Flush(updates + 1)
                           IN  Outcome(f.kind, <<"_setitem">> \o f.raw,
                                       f.updates, b, NoRet)

\* __delitem__(cpv)
DelItem(cpv) ==
    IF readonly THEN Outcome("ReadOnly", <<>>, updates, backend, NoRet)
    ELSE LET u == IF autocommits THEN updates ELSE updates + 1
             r == RawDelete(backend, cpv)
         IN  IF r.kind # "ok" THEN Outcome(r.kind, <<"_delitem">>, u, backend, NoRet)
             ELSE LET f == Flush(u)
                  IN  Outcome(f.kind, <<"_delitem">> \o f.raw, f.updates, r.b, NoRet)

\* the eclass conversion of __getitem__ on the dict d read from the backend
Deserialized(cpv, d) ==
    IF serialize_eclasses /\ "_eclasses_" \in DOMAIN d
    THEN IF d["_eclasses_"].t # "str" THEN [kind |-> "TypeError", d |-> d]
         ELSE LET r == reconstruct_eclasses(cpv, d["_eclasses_"].v)
              IN  IF r.kind = "ok"
                  THEN [kind |-> "ok", d |-> SetKey(d, "_eclasses_", DictVal(r.d))]
                  ELSE [kind |-> r.kind, d |-> d]
    ELSE [kind |-> "ok", d |-> d]

\* __getitem__ without the flush of a backlog
GetItemNoFlush(cpv) ==
    LET r == RawGet(backend, cpv)
    IN  IF r.kind # "ok"
        THEN Outcome(r.kind, <<"_getitem">>, updates, backend, NoRet)
        ELSE LET e == Deserialized(cpv, r.d)
             IN  Outcome(e.kind, <<"_getitem">>, updates, backend,
                         IF e.kind = "ok" THEN e.d ELSE NoRet)

\* __getitem__(cpv)
GetItem(cpv) ==
    LET f == Flush(updates)
    IN  IF f.kind # "ok" THEN Outcome(f.kind, f.raw, f.updates, backend, NoRet)
        ELSE LET r == RawGet(backend, cpv)
             IN  IF r.kind # "ok"
                 THEN Outcome(r.kind, f.raw \o <<"_getitem">>, f.updates, backend, NoRet)
                 ELSE LET e == Deserialized(cpv, r.d)
                      IN  Outcome(e.kind, f.raw \o <<"_getitem">>, f.updates, backend,
                                  IF e.kind = "ok" THEN e.d ELSE NoRet)

\* sync committing also when the counter exceeds the new rate
SyncCommitBacklog(rate) ==
    IF rate = 0 \/ updates > rate THEN Commit ELSE [kind |-> "ok", raw |-> <<>>]

\* the commit() of sync(rate): only when rate == 0
SyncCommit(rate) ==
    IF rate = 0 THEN Commit ELSE [kind |-> "ok", raw |-> <<>>]

\* rawCommit invocations among the primitives raw
RECURSIVE Commits(_)
Commits(raw) ==
    IF raw = <<>> THEN 0
    ELSE (IF Head(raw) = "rawCommit" THEN 1 ELSE 0) + Commits(Tail(raw))

NoRun == [sets |-> -1, commits |-> 0]

\* a run starts over: it is in progress only from a counter of zero
FreshRun(u) == IF u = 0 THEN [sets |-> 0, commits |-> 0] ELSE NoRun

\* the run after a set call with outcome r
RunAfterSet(r) ==
    IF r.kind = "ok" /\ run.sets >= 0 /\ run.sets < MaxRun
    THEN [sets |-> run.sets + 1, commits |-> run.commits + Commits(r.raw)]
    ELSE FreshRun(r.updates)

\* the run after a get call with outcome r: a get is no write and leaves
\* the run in progress
RunAfterGet(r) ==
    IF run.sets >= 0
    THEN [sets |-> run.sets, commits |-> run.commits + Commits(r.raw)]
    ELSE FreshRun(r.updates)

CCall(op, arg, r) ==
    [op |-> op, arg |-> arg, kind |-> r.kind, raw |-> r.raw, ret |-> r.ret,
     pre |-> [updates |-> updates, backend |-> backend, sync_rate |-> sync_rate]]

\* what the backend holds when the cache object is made: nothing, or an entry
\* an earlier session left in the legacy eclass format
InitialBackends ==
    { <<>>,
      ("cat/a-1" :> ("_eclasses_" :> StrVal(<<"e", TAB, "1", "2">>))) }

\* base.__init__ of a derived class with its class attributes
CacheInit ==
    /\ readonly \in BOOLEAN
    /\ autocommits \in BOOLEAN
    /\ cleanse_keys \in BOOLEAN
    /\ serialize_eclasses \in BOOLEAN
    /\ commit_overridden \in BOOLEAN
    /\ sync_rate = 0
    /\ updates = 0
    /\ backend \in InitialBackends
    /\ c_call = [op |-> "init", arg |-> "none", kind |-> "ok", raw |-> <<>>,
                 ret |-> NoRet,
                 pre |-> [updates |-> 0, backend |-> backend, sync_rate |-> 0]]
    /\ run = FreshRun(0)

\* cache[cpv] = values
setitem(cpv, values) ==
    /\ updates < MaxUpdates
    /\ \E o \in ValueOrders(values) :
         LET r == SetItem(cpv, values, o)
         IN  /\ updates' = r.updates
             /\ backend' = r.backend
             /\ c_call' = CCall("set", [cpv |-> cpv, values |-> values], r)
             /\ run' = RunAfterSet(r)
    /\ UNCHANGED <<flagVars, sync_rate, trackerVars, codecVars>>

\* del cache[cpv]
delitem(cpv) ==
    /\ updates < MaxUpdates
    /\ LET r == DelItem(cpv)
       IN  /\ updates' = r.updates
           /\ backend' = r.backend
           /\ c_call' = CCall("delete", cpv, r)
           /\ run' = FreshRun(r.updates)
    /\ UNCHANGED <<flagVars, sync_rate, trackerVars, codecVars>>

\* cache[cpv]
getitem(cpv) ==
    /\ LET r == GetItem(cpv)
       IN  /\ updates' = r.updates
           /\ backend' = r.backend
           /\ c_call' = CCall("get", cpv, r)
           /\ run' = RunAfterGet(r)
    /\ UNCHANGED <<flagVars, sync_rate, trackerVars, codecVars>>

\* cache.sync(rate)
sync(rate) ==
    /\ sync_rate' = rate
    /\ LET c == SyncCommit(rate)
       IN  /\ c_call' = CCall("sync", rate,
                              Outcome(c.kind, c.raw, updates, backend, NoRet))
    /\ run' = FreshRun(updates)
    /\ UNCHANGED <<flagVars, updates, backend, trackerVars, codecVars>>

\* cache.commit()
commit ==
    /\ c_call' = CCall("commit", "none",
                       Outcome(Commit.kind, Commit.raw, updates, backend, NoRet))
    /\ run' = FreshRun(updates)
    /\ UNCHANGED <<flagVars, sync_rate, updates, backend, trackerVars, codecVars>>

CacheNext ==
    \/ \E cpv \in Cpvs, values \in ValuesSet : setitem(cpv, values)
    \/ \E cpv \in Cpvs : delitem(cpv)
    \/ \E cpv \in Cpvs : getitem(cpv)
    \/ \E rate \in 0..MaxRate : sync(rate)
    \/ commit

\* ------------------------------------------------------------------------
\* The codec on its own: one dict encoded and decoded, or one string as a
\* backend may hold it, decoded
\* ------------------------------------------------------------------------

\* class names: plain ones, one ending in a blank, one starting with a blank,
\* the empty one and one holding the separator
ClassNames ==
    { <<"a">>, <<"b">>, <<"a", SPACE>>, <<SPACE, "a">>, <<>>, <<"a", TAB, "b">> }

\* paths: empty, plain, digits only, and one holding the separator
Paths == { <<>>, <<"p">>, <<"1">>, <<"p", TAB, "q">> }

MTimes == {0, 12}

\* the eclass dicts of at most MaxEntries entries
EclassDicts ==
    UNION { [names -> Paths \X MTimes] :
              names \in {n \in SUBSET ClassNames : Cardinality(n) <= MaxEntries} }

\* tokens of a string found on disk
RawTokens == { <<"a">>, <<"b">>, <<"1">>, <<"1", "2">>, <<"-", "1">> }

\* the strings of one to MaxTokens tokens found on disk, and the blank ones
RawStrings ==
    { <<>>, <<SPACE>> } \cup
    UNION { {Join(toks, TAB) : toks \in [1..n -> RawTokens]} : n \in 1..MaxTokens }

NoString == [src |-> "none", v |-> <<>>]

NoEclasses == [kind |-> "none"]

\* the cpv reconstruct_eclasses is given for its errors
CodecCpv == "cat/a-1"

CodecInit ==
    /\ \/ /\ ec_dict \in EclassDicts
          /\ ec_string = NoString
       \/ /\ ec_dict = EmptyDict
          /\ ec_string \in {[src |-> "raw", v |-> str] : str \in RawStrings}
    /\ ec_decoded = NoEclasses

\* deconstruct_eclasses(eclass_dict) on ec_dict
deconstruct ==
    /\ ec_string.src = "none"
    /\ \E o \in Orders(ec_dict) :
         ec_string' = [src |-> "encoded",
                           v |-> deconstruct_eclasses(ec_dict, o)]
    /\ UNCHANGED <<ec_dict, ec_decoded, cacheVars, trackerVars>>

\* reconstruct_eclasses(cpv, eclass_string) on ec_string
reconstruct ==
    /\ ec_string.src # "none"
    /\ ec_decoded = NoEclasses
    /\ ec_decoded' = reconstruct_eclasses(CodecCpv, ec_string.v)
    /\ UNCHANGED <<ec_dict, ec_string, cacheVars, trackerVars>>

CodecNext ==
    \/ deconstruct
    \/ reconstruct

\* ------------------------------------------------------------------------
\* Specifications
\* ------------------------------------------------------------------------

\* a cache nothing is done with
CacheIdle ==
    /\ readonly = FALSE
    /\ autocommits = FALSE
    /\ cleanse_keys = FALSE
    /\ serialize_eclasses = TRUE
    /\ commit_overridden = FALSE
    /\ sync_rate = 0
    /\ updates = 0
    /\ backend = <<>>
    /\ c_call = [op |-> "init", arg |-> "none", kind |-> "ok", raw |-> <<>>,
                 ret |-> NoRet,
                 pre |-> [updates |-> 0, backend |-> <<>>, sync_rate |-> 0]]
    /\ run = FreshRun(0)

\* a codec nothing is done with
CodecIdle ==
    /\ ec_dict = EmptyDict
    /\ ec_string = NoString
    /\ ec_decoded = NoEclasses

InitCache == CacheInit /\ TrackerInit /\ CodecIdle

SpecCache == InitCache /\ [][CacheNext]_vars

InitTracker == TrackerInit /\ CacheIdle /\ CodecIdle

SpecTracker == InitTracker /\ [][TrackerNext]_vars

InitCodec == CodecInit /\ CacheIdle /\ TrackerInit

SpecCodec == InitCodec /\ [][CodecNext]_vars

\* ------------------------------------------------------------------------
\* Properties of the cache (SpecCache)
\* ------------------------------------------------------------------------

\* C1: on a cache made with readonly = True every set and every delete fails
\* with ReadOnly, invokes none of _setitem, _delitem and the commit flush, and
\* leaves the backend's contents and the pending-write counter as they were.
C1_ReadOnlyRejects ==
    readonly /\ c_call.op \in {"set", "delete"} =>
        /\ c_call.kind = "ReadOnly"
        /\ c_call.raw = <<>>
        /\ backend = c_call.pre.backend
        /\ updates = c_call.pre.updates

\* a delete of a stored entry was refused by a read-only cache
C1_Witness ==
    /\ readonly
    /\ c_call.op = "delete"
    /\ c_call.arg \in DOMAIN backend
    /\ c_call.kind = "ReadOnly"

\* C2: on a writable cache that does not autocommit, a run of successful set
\* calls (gets may come between them) that starts from a pending-write counter
\* of 0 under sync_rate r has flushed once per r + 1 writes, the flushes of
\* its gets counted; the flush comes in the (r + 1)-th set after its _setitem
\* and leaves the counter at 0, and every other set only calls _setitem.
C2_Batching ==
    ~readonly /\ ~autocommits /\ run.sets >= 0 =>
        /\ run.commits = run.sets \div (sync_rate + 1)
        /\ updates = run.sets % (sync_rate + 1)
        /\ c_call.op = "set" /\ run.sets > 0 =>
               c_call.raw = IF run.sets % (sync_rate + 1) = 0
                            THEN <<"_setitem", "commit", "rawCommit">>
                            ELSE <<"_setitem">>

\* sync_rate 2: three sets with one flush, a fourth set, then a get that
\* flushes nothing
C2_Witness ==
    /\ ~readonly /\ ~autocommits
    /\ sync_rate = 2
    /\ run = [sets |-> 4, commits |-> 1]
    /\ updates = 1
    /\ c_call.op = "get"
    /\ c_call.kind = "ok"

\* the last call on the cache invoked name
Invoked(name) == \E i \in 1..Len(c_call.raw) : c_call.raw[i] = name

\* C14: on a cache that does not autocommit (its commit working) the
\* pending-write counter does not exceed sync_rate in any state between two
\* calls, whatever calls came before and whether they failed.
C14_CounterWithinRate ==
    ~autocommits /\ commit_overridden => updates <= sync_rate

\* the counter exceeded sync_rate when the last call, a get, started
GetBacklogged == c_call.pre.updates > c_call.pre.sync_rate

\* C15 as stated: get invokes commit exactly when the counter exceeds
\* sync_rate at entry; then the commit completes and the counter is 0 before
\* _getitem is called; else no commit is invoked and the counter stays.
C15_GetFlushCompletes ==
    c_call.op = "get" =>
        /\ Invoked("commit") <=> GetBacklogged
        /\ GetBacklogged =>
               /\ c_call.kind # "NotImplementedError"
               /\ updates = 0
               /\ c_call.raw = <<"commit", "rawCommit", "_getitem">>
        /\ ~GetBacklogged => updates = c_call.pre.updates

\* C15 amended: get invokes commit exactly when the counter exceeds sync_rate
\* at entry; when that commit succeeds the counter is 0 before _getitem is
\* called; when it fails the get fails with its error, _getitem is not called
\* and the counter stays; without a backlog no commit is invoked and the
\* counter stays.
C15_GetFlush ==
    c_call.op = "get" =>
        /\ Invoked("commit") <=> GetBacklogged
        /\ GetBacklogged /\ c_call.kind # "NotImplementedError" =>
               /\ updates = 0
               /\ c_call.raw = <<"commit", "rawCommit", "_getitem">>
        /\ GetBacklogged /\ c_call.kind = "NotImplementedError" =>
               /\ updates = c_call.pre.updates
               /\ c_call.raw = <<"commit">>
        /\ ~GetBacklogged => updates = c_call.pre.updates

\* a get found a backlog, flushed it and read a stored entry
C15_Witness ==
    /\ c_call.op = "get"
    /\ GetBacklogged
    /\ c_call.kind = "ok"
    /\ c_call.raw = <<"commit", "rawCommit", "_getitem">>
    /\ updates = 0

\* C16: sync(rate) sets sync_rate to rate and invokes commit exactly when
\* rate is 0; for a rate above 0 it invokes no commit, also when the counter
\* exceeds the new rate.
C16_Sync ==
    c_call.op = "sync" =>
        /\ sync_rate = c_call.arg
        /\ Invoked("commit") <=> c_call.arg = 0
        /\ updates = c_call.pre.updates

\* sync lowered the rate below the counter and committed nothing
C16_Witness ==
    /\ c_call.op = "sync"
    /\ c_call.arg > 0
    /\ c_call.arg < c_call.pre.sync_rate
    /\ updates > sync_rate
    /\ c_call.raw = <<>>

\* C17: on a cache that autocommits the counter is 0 after any calls, every
\* commit() returns without an effect, and no call fails with
\* NotImplementedError.
C17_AutoCommit ==
    autocommits =>
        /\ updates = 0
        /\ c_call.kind # "NotImplementedError"
        /\ ~Invoked("rawCommit")
        /\ c_call.op = "commit" =>
               /\ c_call.kind = "ok"
               /\ backend = c_call.pre.backend

\* commit() returned on an autocommitting cache that has stored an entry
C17_Witness ==
    /\ autocommits
    /\ c_call.op = "commit"
    /\ c_call.kind = "ok"
    /\ "cat/b-2" \in DOMAIN backend

\* C18: on a writable cache that does not autocommit (its commit working), a
\* delete counts before it calls _delitem and flushes as set does: when it
\* takes the counter above sync_rate, commit is invoked and the counter is 0
\* after the call, also when _delitem fails.
C18_DeleteFlushes ==
    ( /\ ~readonly /\ ~autocommits /\ commit_overridden
      /\ c_call.op = "delete" )
    => IF c_call.pre.updates + 1 > sync_rate
       THEN Invoked("commit") /\ updates = 0
       ELSE ~Invoked("commit") /\ updates = c_call.pre.updates + 1

\* C19: with cleanse_keys and serialize_eclasses both set (the cache writable,
\* its commit working), a set of values with an empty value, the eclass dict
\* among them, succeeds and hands _setitem exactly the keys with non-empty
\* values.
C19_CleanseThenEncode ==
    ( /\ cleanse_keys /\ serialize_eclasses
      /\ ~readonly /\ (autocommits \/ commit_overridden)
      /\ c_call.op = "set"
      /\ \E k \in DOMAIN c_call.arg.values : ~Truthy(c_call.arg.values[k]) )
    => /\ c_call.kind = "ok"
       /\ Invoked("_setitem")
       /\ c_call.arg.cpv \in DOMAIN backend
       /\ DOMAIN backend[c_call.arg.cpv] =
              {k \in DOMAIN c_call.arg.values : Truthy(c_call.arg.values[k])}

\* the last call was a set whose commit() raised NotImplementedError
SetCommitFailed ==
    /\ c_call.op = "set"
    /\ Invoked("commit")
    /\ ~autocommits /\ ~commit_overridden

\* the set failed after _setitem stored the record, the counter one up and
\* above sync_rate
SetFailedStored ==
    /\ c_call.kind = "NotImplementedError"
    /\ Invoked("_setitem")
    /\ c_call.arg.cpv \in DOMAIN backend
    /\ \A k \in Cpvs \ {c_call.arg.cpv} :
          /\ k \in DOMAIN backend <=> k \in DOMAIN c_call.pre.backend
          /\ k \in DOMAIN backend => backend[k] = c_call.pre.backend[k]
    /\ updates = c_call.pre.updates + 1
    /\ updates > sync_rate

\* C25: when the commit inside a set raises NotImplementedError (the cache
\* does not autocommit and its class supplies no commit), the set fails
\* although _setitem has stored the record, the counter stays above sync_rate,
\* and the get, set or delete that comes next invokes commit again.
C25_SetCommitFails ==
    /\ [](SetCommitFailed => SetFailedStored)
    /\ [][SetCommitFailed /\ c_call'.op \in {"get", "set", "delete"}
          => Invoked("commit")']_vars

\* the last call was a sync(0) that returned, on a cache that does not
\* autocommit and whose counter was within the rate when it was called
SyncedZero ==
    /\ c_call.op = "sync"
    /\ c_call.arg = 0
    /\ c_call.kind = "ok"
    /\ ~autocommits
    /\ c_call.pre.updates <= c_call.pre.sync_rate

\* C26: after a sync(0) that returned on a cache that does not autocommit the
\* counter is zero, and a get that comes next invokes no commit.
C26_SyncZeroFlushesOnce ==
    /\ [](SyncedZero => updates = 0)
    /\ [][SyncedZero /\ c_call'.op = "get" => ~Invoked("commit")']_vars

\* ------------------------------------------------------------------------
\* Properties of the tracker (SpecTracker)
\* ------------------------------------------------------------------------

\* the bucket of key in d, empty when the key is absent
Bucket(d, key) == IF key \in DOMAIN d THEN d[key] ELSE <<>>

\* the packages of a bucket
Occupants(bucket) == SelectSeq(bucket, LAMBDA x : ~IsRestriction(x))

\* C3: in every reachable tracker state no bucket holds two package entries
\* with the same slot.
C3_OneOccupantPerSlot ==
    \A key \in DOMAIN slot_dict :
        \A i, j \in 1..Len(slot_dict[key]) :
            /\ i # j
            /\ ~IsRestriction(slot_dict[key][i])
            /\ ~IsRestriction(slot_dict[key][j])
            => slot_dict[key][i].slot # slot_dict[key][j].slot

\* a fill_slotting was turned away by the package holding its slot while the
\* bucket holds packages of two slots
C3_Witness ==
    /\ t_call.op = "fill_slotting"
    /\ t_call.kind = "ok"
    /\ \E i \in 1..Len(t_call.ret) :
          /\ ~IsRestriction(t_call.ret[i])
          /\ t_call.ret[i].slot = t_call.arg.slot
    /\ Len(Occupants(Bucket(slot_dict, t_call.arg.key))) = 2

\* C4: in every reachable tracker state no package stored in a bucket is
\* matched by a restriction stored in the same bucket.
C4_NoBlockedOccupant ==
    \A key \in DOMAIN slot_dict :
        \A i, j \in 1..Len(slot_dict[key]) :
            IsRestriction(slot_dict[key][i]) /\ ~IsRestriction(slot_dict[key][j])
            => ~Match(slot_dict[key][i], slot_dict[key][j])

\* C5: after every call, returning or raising, no key of slot_dict maps to an
\* empty list, and a remove_slotting that takes the last entry of a bucket
\* deletes the key.
C5_NoEmptyBucket ==
    /\ \A key \in DOMAIN slot_dict : slot_dict[key] # <<>>
    /\ ( /\ t_call.op = "remove_slotting"
         /\ t_call.kind = "ok"
         /\ \A i \in 1..Len(t_call.pre[t_call.arg.key]) :
               t_call.pre[t_call.arg.key][i].id = t_call.arg.id )
       => t_call.arg.key \notin DOMAIN slot_dict

\* remove_slotting took the only entry of a bucket and the key is gone
C5_Witness ==
    /\ t_call.op = "remove_slotting"
    /\ t_call.kind = "ok"
    /\ Len(t_call.pre[t_call.arg.key]) = 1
    /\ t_call.arg.key \notin DOMAIN slot_dict

\* the bucket of the call's key holds a package of obj's slot equal to obj
HoldsEqual(bucket, obj) ==
    \E i \in 1..Len(bucket) :
        /\ ~IsRestriction(bucket[i])
        /\ bucket[i].slot = obj.slot
        /\ ValueEq(bucket[i], obj)

\* slot_dict is pre with entry appended to the bucket of its key
Appended(pre, entry) ==
    slot_dict = SetKey(pre, entry.key, Append(Bucket(pre, entry.key), entry))

\* C6: fill_slotting(obj) appends obj at the end of its key's bucket exactly
\* when it returns the empty list and the bucket held no equal package of
\* obj's slot; when it returns a non-empty list the whole slot_dict is as
\* before.
C6_FillFrame ==
    t_call.op = "fill_slotting" =>
        /\ Appended(t_call.pre, t_call.arg) <=>
               /\ t_call.kind = "ok"
               /\ t_call.ret = <<>>
               /\ ~HoldsEqual(Bucket(t_call.pre, t_call.arg.key), t_call.arg)
        /\ t_call.kind = "ok" /\ t_call.ret # <<>> => slot_dict = t_call.pre

\* after fill_slotting(A), fill_slotting(B) returned [A] and stored nothing
C6_Witness ==
    /\ t_call.op = "fill_slotting"
    /\ t_call.arg.id = "B"
    /\ Len(t_call.ret) = 1
    /\ t_call.ret[1].id = "A"
    /\ slot_dict = t_call.pre
    /\ Len(slot_dict["K1"]) = 1

\* C7: when the bucket already holds a package of obj's slot that is equal to
\* obj, and no restriction of the bucket matches that stored package,
\* fill_slotting(obj) returns the empty list and leaves slot_dict as it was.
C7_Reinsertion ==
    ( /\ t_call.op = "fill_slotting"
      /\ \E i \in 1..Len(Bucket(t_call.pre, t_call.arg.key)) :
            LET bucket == Bucket(t_call.pre, t_call.arg.key)
            IN  /\ ~IsRestriction(bucket[i])
                /\ bucket[i].slot = t_call.arg.slot
                /\ ValueEq(bucket[i], t_call.arg)
                /\ ~SanityFails(bucket, bucket[i]) )
    => /\ t_call.kind = "ok"
       /\ t_call.ret = <<>>
       /\ slot_dict = t_call.pre

\* fill_slotting(A2) on a bucket that holds the equal A beside a restriction
\* that matches A2 but not A
C7_Witness ==
    /\ t_call.op = "fill_slotting"
    /\ t_call.arg.id = "A2"
    /\ t_call.kind = "ok"
    /\ t_call.ret = <<>>
    /\ slot_dict = t_call.pre
    /\ \E i, j \in 1..Len(slot_dict["K1"]) :
          slot_dict["K1"][i].id = "A" /\ slot_dict["K1"][j].id = "R2"

\* C8: add_limiter(atom) returns, in bucket order, exactly the packages of the
\* atom's bucket that the atom matches and never a restriction, and appends
\* the atom at the end of that bucket whether or not that list is empty: the
\* bucket grows by one entry and no other bucket changes.
C8_AddLimiter ==
    t_call.op = "add_limiter" /\ t_call.kind = "ok" =>
        LET key == t_call.arg.key
            old == Bucket(t_call.pre, key)
        IN  /\ t_call.ret =
                   SelectSeq(old, LAMBDA x : ~IsRestriction(x) /\ Match(t_call.arg, x))
            /\ \A i \in 1..Len(t_call.ret) : ~IsRestriction(t_call.ret[i])
            /\ DOMAIN slot_dict = DOMAIN t_call.pre \cup {key}
            /\ Len(slot_dict[key]) = Len(old) + 1
            /\ SubSeq(slot_dict[key], 1, Len(old)) = old
            /\ slot_dict[key][Len(old) + 1] = t_call.arg
            /\ \A k \in DOMAIN slot_dict \ {key} : slot_dict[k] = t_call.pre[k]

\* add_limiter of an atom that matches a stored package returned that package
\* and stored the atom behind it, beside another restriction
C8_Witness ==
    /\ t_call.op = "add_limiter"
    /\ t_call.kind = "ok"
    /\ Len(t_call.ret) = 1
    /\ \E i \in 1..Len(t_call.pre[t_call.arg.key]) :
          IsRestriction(t_call.pre[t_call.arg.key][i])
    /\ slot_dict[t_call.arg.key][Len(slot_dict[t_call.arg.key])] = t_call.arg

\* entry is in the bucket of its key by identity
HoldsIdentical(d, entry) ==
    \E i \in 1..Len(Bucket(d, entry.key)) : Bucket(d, entry.key)[i].id = entry.id

\* C9: remove_slotting(obj) raises KeyError when slot_dict has no bucket for
\* obj's key and when the bucket does not hold obj itself (an equal but
\* distinct object does not count); slot_dict is then as before and no bucket
\* was made.
C9_RemoveNotFound ==
    t_call.op = "remove_slotting" /\ ~HoldsIdentical(t_call.pre, t_call.arg) =>
        /\ t_call.kind = "KeyError"
        /\ slot_dict = t_call.pre

\* remove_slotting(A2) raised on a bucket that holds the equal package A
C9_Witness ==
    /\ t_call.op = "remove_slotting"
    /\ t_call.arg.id = "A2"
    /\ t_call.kind = "KeyError"
    /\ \E i \in 1..Len(Bucket(slot_dict, "K1")) : slot_dict["K1"][i].id = "A"

\* x is a conflict of obj: a restriction matching obj or a package of obj's slot
ConflictsWith(x, obj) ==
    \/ IsRestriction(x) /\ Match(x, obj)
    \/ ~IsRestriction(x) /\ x.slot = obj.slot

\* C21: when the bucket holds no package of obj's slot that is equal to obj,
\* fill_slotting(obj) returns exactly the entries of the bucket, in bucket
\* order, that are a restriction matching obj or a package of obj's slot; a
\* package of another slot and a restriction that does not match obj never
\* appear in the list.
C21_ConflictList ==
    ( /\ t_call.op = "fill_slotting"
      /\ ~HoldsEqual(Bucket(t_call.pre, t_call.arg.key), t_call.arg) )
    => /\ t_call.kind = "ok"
       /\ t_call.ret = SelectSeq(Bucket(t_call.pre, t_call.arg.key),
                                 LAMBDA x : ConflictsWith(x, t_call.arg))
       /\ \A i \in 1..Len(t_call.ret) :
             LET x == t_call.ret[i]
             IN  /\ ~IsRestriction(x) => x.slot = t_call.arg.slot
                 /\ IsRestriction(x) => Match(x, t_call.arg)

\* fill_slotting returned one entry of a bucket of two that holds no equal
\* package: the other entry, a package of another slot or a restriction that
\* does not match, was left out
C21_Witness ==
    /\ t_call.op = "fill_slotting"
    /\ t_call.kind = "ok"
    /\ ~HoldsEqual(Bucket(t_call.pre, t_call.arg.key), t_call.arg)
    /\ Len(Bucket(t_call.pre, t_call.arg.key)) = 2
    /\ Len(t_call.ret) = 1
    /\ \E i \in 1..2 :
          ~ConflictsWith(Bucket(t_call.pre, t_call.arg.key)[i], t_call.arg)

\* C22: from the empty tracker no sequence of fill_slotting, add_limiter and
\* remove_slotting calls makes fill_slotting raise on its sanity check (a
\* restriction of the bucket matching the stored package that is confirmed).
C22_NoFatalBranch ==
    ~(t_call.op = "fill_slotting" /\ t_call.kind = "Exception")

\* C23: while a restriction is stored, fill_slotting(obj) of every package of
\* its key that it matches returns a list holding that restriction and does
\* not store obj.
C23_BlockerStandsGuard ==
    t_call.op = "fill_slotting" =>
        \A i \in 1..Len(Bucket(t_call.pre, t_call.arg.key)) :
            LET x == Bucket(t_call.pre, t_call.arg.key)[i]
            IN  IsRestriction(x) /\ Match(x, t_call.arg)
                => /\ t_call.kind = "ok"
                   /\ \E j \in 1..Len(t_call.ret) : t_call.ret[j] = x
                   /\ slot_dict = t_call.pre

\* C24: a remove_slotting(obj) that does not raise takes exactly one entry out:
\* the bucket of obj's key is one entry shorter (the key is gone when that
\* leaves it empty), the entries left keep their order, and every other bucket
\* is as before, also when add_limiter stored the same atom more than once.
C24_RemoveExactlyOne ==
    t_call.op = "remove_slotting" /\ t_call.kind = "ok" =>
        LET key == t_call.arg.key
            old == Bucket(t_call.pre, key)
            new == Bucket(slot_dict, key)
        IN  /\ Len(new) = Len(old) - 1
            /\ (new = <<>>) <=> (key \notin DOMAIN slot_dict)
            /\ \E i \in 1..Len(old) :
                  /\ old[i] = t_call.arg
                  /\ new = SubSeq(old, 1, i - 1) \o SubSeq(old, i + 1, Len(old))
            /\ \A k \in (DOMAIN t_call.pre \cup DOMAIN slot_dict) \ {key} :
                  Bucket(slot_dict, k) = Bucket(t_call.pre, k)

\* ------------------------------------------------------------------------
\* Properties of the codec (SpecCodec)
\* ------------------------------------------------------------------------

HasTab(str) == \E i \in 1..Len(str) : str[i] = TAB

\* the dict the claim speaks of: mtimes not negative, paths without the tab
PathsAndTimesFit(d) ==
    \A name \in DOMAIN d : ~HasTab(d[name][1]) /\ d[name][2] >= 0

\* class names the text format can carry: not empty, without the tab, not
\* starting with whitespace
NamesFit(d) ==
    \A name \in DOMAIN d :
        name # <<>> /\ ~HasTab(name) /\ Head(name) \notin Whitespace

\* C10 as stated: every dict with non-negative mtimes and tab-free paths
\* decodes from its encoding to itself, in whatever order it was encoded.
C10_RoundTripAnyName ==
    ( /\ ec_string.src = "encoded"
      /\ ec_decoded # NoEclasses
      /\ PathsAndTimesFit(ec_dict) )
    => ec_decoded = [kind |-> "ok", d |-> ec_dict]

\* C10 amended: every dict with non-negative mtimes, tab-free paths and class
\* names that are not empty, hold no tab and do not start with whitespace
\* decodes from its encoding to itself, in whatever order it was encoded.
C10_RoundTrip ==
    ( /\ ec_string.src = "encoded"
      /\ ec_decoded # NoEclasses
      /\ PathsAndTimesFit(ec_dict)
      /\ NamesFit(ec_dict) )
    => ec_decoded = [kind |-> "ok", d |-> ec_dict]

\* a dict of two entries, one with a path of digits, came back from its six
\* tokens
C10_Witness ==
    /\ ec_string.src = "encoded"
    /\ ec_decoded = [kind |-> "ok", d |-> ec_dict]
    /\ NamesFit(ec_dict)
    /\ PathsAndTimesFit(ec_dict)
    /\ Cardinality(DOMAIN ec_dict) = 2
    /\ \E name \in DOMAIN ec_dict : IsDigit(ec_dict[name][1])

\* the tokens reconstruct_eclasses splits ec_string into
EcTokens == Split(Strip(ec_string.v), TAB)

\* a string from the backend has been decoded
RawDecoded == ec_string.src = "raw" /\ ec_decoded # NoEclasses

\* the positions of the names and of the mtimes of a stream of pairs
NamePositions(toks) == {i \in 1..Len(toks) : i % 2 = 1}

TimePositions(toks) == {i \in 1..Len(toks) : i % 2 = 0}

\* a stream of name, mtime pairs: an even number of tokens, every second one
\* of digits only
PairStream(toks) ==
    /\ Len(toks) % 2 = 0
    /\ \A i \in TimePositions(toks) : IsDigit(toks[i])

\* d maps the names of the pair stream toks to ("", mtime), the last pair of
\* a name that comes twice deciding
PairsLastWins(d, toks) ==
    /\ DOMAIN d = {toks[i] : i \in NamePositions(toks)}
    /\ \A i \in NamePositions(toks) :
          (\A j \in NamePositions(toks) : j > i => toks[j] # toks[i])
          => d[toks[i]] = << <<>>, DecValue(toks[i + 1]) >>

\* C11 as stated: an input of an even number of tokens that is no multiple
\* of 3, every second token of digits only, decodes to the map that sends
\* each name token to ("", value of the token after it).
C11_LegacyEveryPair ==
    RawDecoded /\ PairStream(EcTokens) /\ Len(EcTokens) % 3 # 0 =>
        /\ ec_decoded.kind = "ok"
        /\ \A i \in NamePositions(EcTokens) :
              /\ EcTokens[i] \in DOMAIN ec_decoded.d
              /\ ec_decoded.d[EcTokens[i]] = << <<>>, DecValue(EcTokens[i + 1]) >>

\* C11 amended: such an input decodes to the map of its names that sends each
\* name to ("", value of the token after it), the last pair of a name that
\* comes twice deciding.
C11_LegacyPairs ==
    RawDecoded /\ PairStream(EcTokens) /\ Len(EcTokens) % 3 # 0 =>
        /\ ec_decoded.kind = "ok"
        /\ PairsLastWins(ec_decoded.d, EcTokens)

\* four tokens, two names, decoded as two pairs without paths
C11_Witness ==
    /\ RawDecoded
    /\ Len(EcTokens) = 4
    /\ PairStream(EcTokens)
    /\ ec_decoded.kind = "ok"
    /\ Cardinality(DOMAIN ec_decoded.d) = 2
    /\ \A name \in DOMAIN ec_decoded.d : ec_decoded.d[name][1] = <<>>

\* C12: an input of an even number of tokens that is no multiple of 3 and
\* whose second token is not of digits only fails with CacheCorruption
\* carrying the cpv, and in no other way.
C12_BadSecondTokenCorrupt ==
    ( /\ RawDecoded
      /\ Len(EcTokens) % 2 = 0
      /\ Len(EcTokens) % 3 # 0
      /\ ~IsDigit(EcTokens[2]) )
    => ec_decoded = [kind |-> "CacheCorruption", cpv |-> CodecCpv]

\* the token count is a multiple of neither 2 nor 3
OddLength(toks) == Len(toks) % 2 # 0 /\ Len(toks) % 3 # 0

\* C13 as stated: every non-empty input whose token count is a multiple of
\* neither 2 nor 3 fails with CacheCorruption carrying the cpv.
C13_OddLengthNonEmpty ==
    RawDecoded /\ ec_string.v # <<>> /\ OddLength(EcTokens) =>
        ec_decoded = [kind |-> "CacheCorruption", cpv |-> CodecCpv]

\* C13 amended: every input that is not empty or whitespace only and whose
\* token count is a multiple of neither 2 nor 3 fails with CacheCorruption
\* carrying the cpv.
C13_OddLengthCorrupt ==
    RawDecoded /\ Strip(ec_string.v) # <<>> /\ OddLength(EcTokens) =>
        ec_decoded = [kind |-> "CacheCorruption", cpv |-> CodecCpv]

\* five tokens, the mtimes in place, refused for their number
C13_Witness ==
    /\ RawDecoded
    /\ Len(EcTokens) = 5
    /\ IsDigit(EcTokens[2]) /\ IsDigit(EcTokens[3])
    /\ ec_decoded = [kind |-> "CacheCorruption", cpv |-> CodecCpv]

\* C20: a stream of legacy pairs whose token count is a multiple of 6 is
\* decoded as pairs: each name is mapped to ("", mtime).
C20_SixTokensAsPairs ==
    RawDecoded /\ Len(EcTokens) % 6 = 0 /\ PairStream(EcTokens) =>
        /\ ec_decoded.kind = "ok"
        /\ PairsLastWins(ec_decoded.d, EcTokens)

====
